---- MODULE Spec2Model ----
(***************************************************************************)
(* The MainTitle component of website/src/components/MainTitle.tsx.        *)
(*                                                                         *)
(* The component is a function of its `children` prop and of the ambient   *)
(* color mode it reads through the useColorMode hook.  The ambient mode    *)
(* belongs to the hosting framework and changes outside the component.     *)
(* A render evaluates the function once and yields an element tree; `log`  *)
(* keeps, in order, what every render was given and what it returned.      *)
(*                                                                         *)
(* An element is a record [type, props, children]; a text node is an       *)
(* element of type "#text" whose props carry the string.  A ReactNode      *)
(* passed as `children` is a sequence of nodes.                            *)
(***************************************************************************)
EXTENDS Integers, Sequences, FiniteSets

VARIABLES colorMode, log

vars == <<colorMode, log>>

\* Number of renders a behaviour records.
MaxRenders == 3

\* The ColorMode type of the hosting framework.
ColorModes == {"light", "dark"}

\* What the hook can hand over at run time when the type is not enforced.
AnyColorModes == ColorModes \cup {"undefined", "system"}

Elem(type, props, children) ==
    [type |-> type, props |-> props, children |-> children]

Text(s) == Elem("#text", [nodeValue |-> s], <<>>)

\* The children values callers pass: nothing, one node, two nodes in either
\* order.
ChildrenValues ==
    { <<>>,
      <<Text("a")>>,
      <<Text("a"), Text("b")>>,
      <<Text("b"), Text("a")>> }

----------------------------------------------------------------------------
\* const { colorMode } = useColorMode();
useColorModeStale ==
    [colorMode |-> IF log = <<>> THEN colorMode ELSE log[1].colorMode]

useColorMode == [colorMode |-> colorMode]

\* glareColor={colorMode === "dark" ? "#1b8aff" : "#498cd5"}
GlareColorSwapped(mode) == IF mode = "dark" THEN "#498cd5" ELSE "#1b8aff"

GlareColorTestsLight(mode) == IF mode = "light" THEN "#498cd5" ELSE "#1b8aff"

GlareColor(mode) == IF mode = "dark" THEN "#1b8aff" ELSE "#498cd5"

\* glareMaxOpacity={0.08}, kept exact as a fraction.
GlareMaxOpacity == [num |-> 8, den |-> 100]

\* The props of <Tilt>.
TiltPropsOpacityByMode(mode) ==
    [ tiltAxis          |-> "y",
      tiltMaxAngleY     |-> 5,
      transitionSpeed   |-> 2500,
      glareEnable       |-> TRUE,
      glareMaxOpacity   |-> IF mode = "dark"
                              THEN [num |-> 8, den |-> 100]
                              ELSE [num |-> 16, den |-> 100],
      glareColor        |-> GlareColor(mode),
      glarePosition     |-> "all",
      glareBorderRadius |-> "9px" ]

TiltProps(mode) ==
    [ tiltAxis          |-> "y",
      tiltMaxAngleY     |-> 5,
      transitionSpeed   |-> 2500,
      glareEnable       |-> TRUE,
      glareMaxOpacity   |-> GlareMaxOpacity,
      glareColor        |-> GlareColor(mode),
      glarePosition     |-> "all",
      glareBorderRadius |-> "9px" ]

\* <img src="..." />
LogoSrc ==
    "https://raw.githubusercontent.com/mkosir/typescript-style-guide/main/misc/typescript-logo-30.png"

LogoPerRender ==
    Elem("img", [src |-> IF Len(log) % 2 = 0 THEN LogoSrc ELSE "?v=1"], <<>>)

Logo == Elem("img", [src |-> LogoSrc], <<>>)

\* <h1 style={{ marginBottom: 0 }}>{children}</h1>
HeadingReversed(children) ==
    Elem("h1", [style |-> [marginBottom |-> 0]],
         [i \in 1..Len(children) |-> children[Len(children) + 1 - i]])

Heading(children) ==
    Elem("h1", [style |-> [marginBottom |-> 0]], children)

\* The inner <div>: logo, a space, the heading.
Content(children) ==
    Elem("div",
         [style |-> [display |-> "flex", alignItems |-> "center",
                     columnGap |-> "6px"]],
         <<Logo, Text(" "), Heading(children)>>)

\* The component: the outer <div> around <Tilt> around the content.
MainTitleThrows(children) ==
    IF children = <<>>
      THEN Elem("#error", [message |-> "TypeError"], <<>>)
      ELSE Elem("div",
                [style |-> [display |-> "flex", justifyContent |-> "center",
                            marginBottom |-> "30px"]],
                <<Elem("Tilt", TiltProps(useColorMode.colorMode),
                       <<Content(children)>>)>>)

MainTitle(children) ==
    Elem("div",
         [style |-> [display |-> "flex", justifyContent |-> "center",
                     marginBottom |-> "30px"]],
         <<Elem("Tilt", TiltProps(useColorMode.colorMode),
                <<Content(children)>>)>>)

----------------------------------------------------------------------------
Init ==
    /\ colorMode \in ColorModes
    /\ log = <<>>

InitUntyped ==
    /\ colorMode \in AnyColorModes
    /\ log = <<>>

\* The hosting framework changes the ambient mode; the component has no part
\* in it.
SetColorMode(mode) ==
    /\ mode # colorMode
    /\ colorMode' = mode
    /\ UNCHANGED log

\* One render: the component function is evaluated once with the given
\* children under the mode current now.
RenderSetsMode(children) ==
    /\ Len(log) < MaxRenders
    /\ log' = Append(log, [colorMode |-> colorMode,
                           children  |-> children,
                           element   |-> MainTitle(children)])
    /\ colorMode' = "light"

Render(children) ==
    /\ Len(log) < MaxRenders
    /\ log' = Append(log, [colorMode |-> colorMode,
                           children  |-> children,
                           element   |-> MainTitle(children)])
    /\ UNCHANGED colorMode

Next ==
    \/ \E mode \in ColorModes : SetColorMode(mode)
    \/ \E children \in ChildrenValues : Render(children)

NextUntyped ==
    \/ \E mode \in AnyColorModes : SetColorMode(mode)
    \/ \E children \in ChildrenValues : Render(children)

Spec == Init /\ [][Next]_vars

SpecUntyped == InitUntyped /\ [][NextUntyped]_vars

----------------------------------------------------------------------------
\* Reading a rendered tree.
TiltOf(element) == element.children[1]

GlareOf(element) == TiltOf(element).props.glareColor

ContentOf(element) == TiltOf(element).children[1]

HeadingOf(element) == ContentOf(element).children[3]

RECURSIVE TextOf(_), TextOfAll(_)
\* The strings of the text nodes of a tree, in document order.
TextOf(node) ==
    IF node.type = "#text" THEN <<node.props.nodeValue>>
    ELSE TextOfAll(node.children)

TextOfAll(nodes) ==
    IF nodes = <<>> THEN <<>>
    ELSE TextOf(Head(nodes)) \o TextOfAll(Tail(nodes))

RECURSIVE CountType(_, _), CountTypeAll(_, _)
\* How many nodes of a tree have the given type.
CountType(node, type) ==
    (IF node.type = type THEN 1 ELSE 0) + CountTypeAll(node.children, type)

CountTypeAll(nodes, type) ==
    IF nodes = <<>> THEN 0
    ELSE CountType(Head(nodes), type) + CountTypeAll(Tail(nodes), type)

Last(seq) == seq[Len(seq)]

IsRenderStep == log' # log

----------------------------------------------------------------------------
\* C1: every render made under mode "dark" passes glareColor "#1b8aff" to
\* Tilt, and every render made under mode "light" passes "#498cd5".
C1_GlareColorByMode ==
    \A i \in DOMAIN log :
        /\ log[i].colorMode = "dark"  => GlareOf(log[i].element) = "#1b8aff"
        /\ log[i].colorMode = "light" => GlareOf(log[i].element) = "#498cd5"

C1_Witness ==
    \E i, j \in DOMAIN log :
        /\ log[i].colorMode = "dark"  /\ GlareOf(log[i].element) = "#1b8aff"
        /\ log[j].colorMode = "light" /\ GlareOf(log[j].element) = "#498cd5"

\* C2: the rendered tree has exactly one h1, it lies inside the Tilt wrapper,
\* its content is the given children value itself, and the children occur
\* nowhere else: the text of the whole tree is the spacer followed by the
\* text of the children, in their order.
C2_ChildrenUnchanged ==
    \A i \in DOMAIN log :
        LET element == log[i].element IN
        /\ CountType(element, "h1") = 1
        /\ CountType(TiltOf(element), "h1") = 1
        /\ TiltOf(element).type = "Tilt"
        /\ HeadingOf(element).type = "h1"
        /\ HeadingOf(element).children = log[i].children
        /\ TextOf(element) = <<" ">> \o TextOfAll(log[i].children)

C2_Witness ==
    \E i, j \in DOMAIN log :
        /\ log[i].children = <<Text("a"), Text("b")>>
        /\ HeadingOf(log[i].element).children = <<Text("a"), Text("b")>>
        /\ log[j].children = <<Text("b"), Text("a")>>
        /\ HeadingOf(log[j].element).children = <<Text("b"), Text("a")>>
        /\ log[i].colorMode # log[j].colorMode

\* C3: a render leaves the ambient color mode as it found it.
C3_RenderKeepsColorMode ==
    [][IsRenderStep => colorMode' = colorMode]_vars

C3_Witness ==
    /\ Len(log) = 3
    /\ log[1].colorMode = "dark"
    /\ log[2].colorMode = "light"
    /\ log[3].colorMode = "dark"
    /\ colorMode = "dark"

\* C4: in every render the Tilt props other than glareColor are the fixed
\* bundle, whatever the mode and the children.
C4_FixedBundle ==
    \A i \in DOMAIN log :
        LET props == TiltOf(log[i].element).props IN
        /\ DOMAIN props = {"tiltAxis", "tiltMaxAngleY", "transitionSpeed",
                           "glareEnable", "glareMaxOpacity", "glareColor",
                           "glarePosition", "glareBorderRadius"}
        /\ props.tiltAxis = "y"
        /\ props.tiltMaxAngleY = 5
        /\ props.transitionSpeed = 2500
        /\ props.glareEnable = TRUE
        /\ props.glareMaxOpacity.num * 100 = 8 * props.glareMaxOpacity.den
        /\ props.glarePosition = "all"
        /\ props.glareBorderRadius = "9px"

C4_Witness ==
    \E i, j \in DOMAIN log :
        /\ log[i].colorMode = "dark"
        /\ log[j].colorMode = "light"
        /\ log[i].children # log[j].children
        /\ TiltOf(log[i].element).props.transitionSpeed = 2500
        /\ TiltOf(log[j].element).props.transitionSpeed = 2500

\* C5: every render yields an element (the outer div), never an error
\* outcome, and a render is one evaluation: it records exactly one result.
C5_NoErrorOutcome ==
    /\ [](\A i \in DOMAIN log :
            /\ log[i].element.type = "div"
            /\ CountType(log[i].element, "#error") = 0)
    /\ [][IsRenderStep => Len(log') = Len(log) + 1]_vars

C5_Witness ==
    /\ Len(log) = 3
    /\ \E i, j \in DOMAIN log :
        /\ log[i].children = <<>>
        /\ log[i].colorMode = "dark"
        /\ log[i].element.type = "div"
        /\ log[j].children # <<>>
        /\ log[j].colorMode = "light"
        /\ log[j].element.type = "div"

\* C6: the glare color of a render goes with the mode current at that render:
\* compared with any earlier render, it is the same color exactly when the
\* current mode and the earlier render's mode agree on being "dark".
C6_ModeReadEachRender ==
    [][IsRenderStep =>
        /\ Last(log').colorMode = colorMode
        /\ \A i \in DOMAIN log :
             (GlareOf(Last(log').element) = GlareOf(log[i].element))
               <=> ((colorMode = "dark") <=> (log[i].colorMode = "dark"))]_vars

C6_Witness ==
    /\ Len(log) = 3
    /\ log[1].colorMode = "dark"
    /\ log[2].colorMode = "light"
    /\ log[3].colorMode = "dark"
    /\ GlareOf(log[1].element) # GlareOf(log[2].element)
    /\ GlareOf(log[3].element) = GlareOf(log[1].element)

\* C7: whatever value the mode has, a render under a mode other than "dark"
\* passes "#498cd5", so glareColor is always one of the two literals.
C7_DefaultsToLight ==
    \A i \in DOMAIN log :
        /\ log[i].colorMode # "dark" => GlareOf(log[i].element) = "#498cd5"
        /\ GlareOf(log[i].element) \in {"#1b8aff", "#498cd5"}

C7_Witness ==
    \E i, j, k \in DOMAIN log :
        /\ log[i].colorMode = "undefined"
        /\ GlareOf(log[i].element) = "#498cd5"
        /\ log[j].colorMode = "system"
        /\ GlareOf(log[j].element) = "#498cd5"
        /\ log[k].colorMode = "dark"
        /\ GlareOf(log[k].element) = "#1b8aff"

\* C8: two renders under the same mode with the same children return the
\* same element tree, whatever was rendered in between.
C8_Deterministic ==
    \A i, j \in DOMAIN log :
        (log[i].colorMode = log[j].colorMode /\ log[i].children = log[j].children)
            => log[i].element = log[j].element

C8_Witness ==
    /\ Len(log) = 3
    /\ log[1].colorMode = log[3].colorMode
    /\ log[1].children = log[3].children
    /\ log[2].colorMode # log[1].colorMode
    /\ log[2].children # log[1].children
    /\ log[1].element = log[3].element
    /\ log[2].element # log[1].element

====
